---- MODULE Spec2Model ----
(***************************************************************************)
(* Route-annotation enrichment of avinashkurup/spry: pathExtensions,       *)
(* isRouteSupplier, enrichRoute and Routes.populate, as a state machine.   *)
(*                                                                         *)
(* Strings are sequences of one-character strings, so that basename,       *)
(* dirname, join and split are computed, not assumed.  @std/path is the    *)
(* POSIX implementation (separator "/").                                   *)
(***************************************************************************)
EXTENDS Naturals, Sequences, FiniteSets, TLC

VARIABLES
  input,     \* the path string handed to pathExtensions (SpecDerive)
  derived,   \* what pathExtensions(input) and autoMaterializable() returned
  cells,     \* the carriers (notebook code cells) enrichRoute is called on
  heap,      \* the route objects reachable from the carriers' attrs
  issues,    \* the issue sink: every issue handed to registerIssue, in order
  calls,     \* per cell: number of enrichRoute calls made on it
  outcome,   \* per cell: how its latest enrichRoute call ended
  vstat,     \* per route object: result of the latest safeParse on it
  last,      \* the state just before the latest enrichRoute call
  init,      \* the carriers and route objects as constructed
  pop        \* Routes.populate: its position, input records, forest and crumbs

vars == <<input, derived, cells, heap, issues, calls, outcome, vstat, last, init, pop>>

(***************************************************************************)
(* Bounds                                                                  *)
(***************************************************************************)
MaxPathLen == 6
MaxCalls == 2

Chars == {"a", "b", ".", "/"}

-----------------------------------------------------------------------------
(***************************************************************************)
(* String helpers                                                          *)
(***************************************************************************)
SetMax(S) == CHOOSE m \in S : \A x \in S : x <= m

Max2(a, b) == IF a >= b THEN a ELSE b

\* String.prototype.split(sep) for a one-character separator: "" gives [""].
RECURSIVE Split(_, _)
Split(s, sep) ==
  IF \A i \in 1..Len(s) : s[i] # sep THEN <<s>>
  ELSE LET k == CHOOSE i \in 1..Len(s) :
                  s[i] = sep /\ \A j \in 1..(i - 1) : s[j] # sep
       IN <<SubSeq(s, 1, k - 1)>> \o Split(SubSeq(s, k + 1, Len(s)), sep)

\* Array.prototype.join(sep)
RECURSIVE JoinWith(_, _)
JoinWith(parts, sep) ==
  IF parts = <<>> THEN <<>>
  ELSE IF Len(parts) = 1 THEN parts[1]
  ELSE parts[1] \o sep \o JoinWith(Tail(parts), sep)

\* index of the last character that is no separator, 0 when there is none
LastNonSep(s) ==
  LET S == {i \in 1..Len(s) : s[i] # "/"} IN IF S = {} THEN 0 ELSE SetMax(S)

(***************************************************************************)
(* jsr:@std/path (POSIX)                                                   *)
(***************************************************************************)
lastPathSegment(path) ==
  LET e == LastNonSep(path) IN
  IF e = 0 THEN path
  ELSE LET seps == {i \in 1..e : path[i] = "/"}
           st == IF seps = {} THEN 1 ELSE SetMax(seps) + 1
       IN SubSeq(path, st, e)

stripTrailingSeparators(segment) ==
  IF Len(segment) <= 1 THEN segment
  ELSE SubSeq(segment, 1, Max2(1, LastNonSep(segment)))

basename(path) ==
  IF Len(path) = 0 THEN path
  ELSE stripTrailingSeparators(lastPathSegment(path))

dirname(path) ==
  IF Len(path) = 0 THEN <<".">>
  ELSE LET nonsep == {i \in 2..Len(path) : path[i] # "/"}
           e == IF nonsep = {} THEN 0 ELSE SetMax(nonsep)
           seps == {j \in 2..(e - 1) : path[j] = "/"}
       IN IF e = 0 \/ seps = {}
          THEN (IF path[1] = "/" THEN <<"/">> ELSE <<".">>)
          ELSE stripTrailingSeparators(SubSeq(path, 1, SetMax(seps) - 1))

\* normalizeString: drops "" and "." segments, resolves ".." against the
\* segment before it; above the root ".." is kept only when allowAboveRoot.
RECURSIVE normalizeSegments(_, _, _)
normalizeSegments(segs, acc, allowAboveRoot) ==
  IF segs = <<>> THEN acc
  ELSE LET s == Head(segs)
           rest == Tail(segs)
       IN IF s = <<>> \/ s = <<".">> THEN normalizeSegments(rest, acc, allowAboveRoot)
          ELSE IF s = <<".", ".">>
          THEN IF acc # <<>> /\ acc[Len(acc)] # <<".", ".">>
               THEN normalizeSegments(rest, SubSeq(acc, 1, Len(acc) - 1), allowAboveRoot)
               ELSE IF allowAboveRoot
               THEN normalizeSegments(rest, Append(acc, s), allowAboveRoot)
               ELSE normalizeSegments(rest, acc, allowAboveRoot)
          ELSE normalizeSegments(rest, Append(acc, s), allowAboveRoot)

normalize(path) ==
  IF Len(path) = 0 THEN <<".">>
  ELSE LET isAbsolute == path[1] = "/"
           trailingSeparator == path[Len(path)] = "/"
           n0 == JoinWith(normalizeSegments(Split(path, "/"), <<>>, ~isAbsolute), <<"/">>)
           n1 == IF Len(n0) = 0 /\ ~isAbsolute THEN <<".">> ELSE n0
           n2 == IF Len(n1) > 0 /\ trailingSeparator THEN n1 \o <<"/">> ELSE n1
       IN IF isAbsolute THEN <<"/">> \o n2 ELSE n2

\* paths.filter((path) => path.length > 0), for the two arguments of join
nonEmptyPaths(a, b) ==
  (IF Len(a) > 0 THEN <<a>> ELSE <<>>) \o (IF Len(b) > 0 THEN <<b>> ELSE <<>>)

join(a, b) ==
  LET joined == JoinWith(nonEmptyPaths(a, b), <<"/">>)
  IN IF joined = <<>> THEN <<".">> ELSE normalize(joined)

(***************************************************************************)
(* pathExtensions                                                          *)
(***************************************************************************)
\* mutant: every extension, the last one too, carries the leading dot
extensionsOf_allDotted(parts) ==
  [i \in 1..(Len(parts) - 1) |-> <<".">> \o parts[i + 1]]

\* parts.slice(1).map((e, i, a) => i < a.length - 1 ? `.${e}` : e)
extensionsOf(parts) ==
  [i \in 1..(Len(parts) - 1) |->
     IF i < Len(parts) - 1 THEN <<".">> \o parts[i + 1] ELSE parts[i + 1]]

pathExtensions(path) ==
  LET name == basename(path)
      parts == Split(name, ".")
      exts == extensionsOf(parts)
  IN [basename |-> name,
      extensions |-> exts,
      terminal |-> IF exts = <<>> THEN <<>> ELSE exts[Len(exts)]]

\* the stem and the intermediate part the auto-materialized file name is built from
autoBase(parts) == parts[1]

\* mutant: the terminal part is taken instead of the one before it
autoPenultimate_last(parts) == parts[Len(parts)]

autoPenultimate(parts) == parts[Len(parts) - 1]

\* the closure autoMaterializable(): applicable = FALSE is the sentinel false
autoMaterializable(path) ==
  LET parts == Split(basename(path), ".")
      exts == extensionsOf(parts)
  IN IF Len(exts) < 2 THEN [applicable |-> FALSE, path |-> <<>>]
     ELSE LET base == autoBase(parts)
              penultimate == autoPenultimate(parts)
              sub == Split(penultimate, ".")
              inner == JoinWith(SubSeq(sub, 1, Len(sub) - 1), <<".">>)
          IN [applicable |-> TRUE,
              path |-> join(dirname(path),
                            base \o <<".">> \o inner
                              \o <<"a", "u", "t", "o", ".">> \o penultimate)]

-----------------------------------------------------------------------------
(***************************************************************************)
(* JavaScript values held by a route's properties.  t is the typeof tag    *)
(* ("absent": the property is missing or undefined), s a string or the     *)
(* digits of a number, a the elements of an array of strings.              *)
(***************************************************************************)
Absent == [t |-> "absent", s |-> <<>>, a |-> <<>>]

StrV(x) == [t |-> "string", s |-> x, a |-> <<>>]

NumV(x) == [t |-> "number", s |-> x, a |-> <<>>]

ArrV(x) == [t |-> "array", s |-> <<>>, a |-> x]

\* JavaScript truthiness, as `!route.path` and `cell.info` use it
Truthy(v) ==
  CASE v.t = "absent" -> FALSE
    [] v.t = "string" -> Len(v.s) > 0
    [] v.t = "number" -> v.s # <<"0">>
    [] OTHER -> TRUE

(***************************************************************************)
(* pageRouteSchema: z.object({...}).strict()                               *)
(***************************************************************************)
RequiredStrings == {"path", "caption"}

OptionalStrings ==
  {"pathBasename", "pathBasenameNoExtn", "pathDirname", "pathExtnTerminal",
   "url", "title", "abbreviatedCaption", "description"}

\* the keys of the schema; "foo" stands for any key the schema does not list
SchemaKeys ==
  RequiredStrings \cup OptionalStrings
    \cup {"pathExtns", "siblingOrder", "elaboration", "children"}

RouteKeys == SchemaKeys \cup {"foo"}

\* the zod issues of one key: "invalid_type" or "unrecognized_keys"
keyIssue(k, v) ==
  CASE k \in RequiredStrings -> IF v.t = "string" THEN {} ELSE {<<"invalid_type", k>>}
    [] k \in OptionalStrings ->
         IF v.t \in {"absent", "string"} THEN {} ELSE {<<"invalid_type", k>>}
    [] k = "pathExtns" ->
         IF v.t \in {"absent", "array"} THEN {} ELSE {<<"invalid_type", k>>}
    [] k = "siblingOrder" ->
         IF v.t \in {"absent", "number"} THEN {} ELSE {<<"invalid_type", k>>}
    [] k = "elaboration" -> {}
    [] k = "children" ->
         IF v.t \in {"absent", "children"} THEN {} ELSE {<<"invalid_type", k>>}
    [] OTHER -> IF v.t = "absent" THEN {} ELSE {<<"unrecognized_keys", k>>}

\* z.safeParse(pageRouteSchema, route): never throws
safeParse(route) ==
  LET error == IF route.kind # "object" THEN {<<"invalid_type", "route">>}
               ELSE UNION {keyIssue(k, route.p[k]) : k \in RouteKeys}
  IN [success |-> error = {}, error |-> error]

(***************************************************************************)
(* isRouteSupplier and enrichRoute                                         *)
(***************************************************************************)
\* o && typeof o === "object" && "route" in o && typeof o.route === "object";
\* typeof null and typeof [] are "object" too
isRouteSupplier(o) ==
  /\ o.t = "object"
  /\ o.hasRoute
  /\ o.routeT \in {"object", "null"}

\* if (!route.path && cell.info) route.path = cell.info
defaultPath(route, info) ==
  IF ~Truthy(route.p["path"]) /\ Len(info) > 0
  THEN [route EXCEPT !.p["path"] = StrV(info)]
  ELSE route

\* mutant: the extensions are pushed onto the pathExtns already there
deriveFields_accumulate(route) ==
  LET path == route.p["path"].s
      extensions == pathExtensions(path)
  IN [route EXCEPT
        !.p["pathBasename"] = StrV(extensions.basename),
        !.p["pathBasenameNoExtn"] = StrV(Split(extensions.basename, ".")[1]),
        !.p["pathDirname"] = StrV(dirname(path)),
        !.p["pathExtnTerminal"] = StrV(extensions.terminal),
        !.p["pathExtns"] = ArrV(route.p["pathExtns"].a \o extensions.extensions)]

\* the five assignments from pathExtensions(route.path) and dirname(route.path)
deriveFields(route) ==
  LET path == route.p["path"].s
      extensions == pathExtensions(path)
  IN [route EXCEPT
        !.p["pathBasename"] = StrV(extensions.basename),
        !.p["pathBasenameNoExtn"] = StrV(Split(extensions.basename, ".")[1]),
        !.p["pathDirname"] = StrV(dirname(path)),
        !.p["pathExtnTerminal"] = StrV(extensions.terminal),
        !.p["pathExtns"] = ArrV(extensions.extensions)]

issueKind == "fence-attrs-json5-parse"

\* the object handed to registerIssue
routeIssue(cell, error) ==
  [kind |-> issueKind,
   disposition |-> "error",
   error |-> error,
   message |-> <<"Zod error parsing route: ", error>>,
   provenance |-> cell.provenance,
   startLine |-> cell.startLine,
   endLine |-> cell.endLine]

\* One call enrichRoute(cell, {nb, registerIssue}) with cell.attrs.route = route.
\* outcome "threw" is a TypeError leaving the call: reading .path of null, or
\* basename/dirname (assertPath) given a path that is no string.
enrichCall(cell, route) ==
  IF ~isRouteSupplier(cell.attrs)
  THEN [outcome |-> "returned", wrote |-> FALSE, route |-> route,
        parsed |-> "none", issues |-> <<>>]
  ELSE IF cell.attrs.routeT = "null"
  THEN [outcome |-> "threw", wrote |-> FALSE, route |-> route,
        parsed |-> "none", issues |-> <<>>]
  ELSE LET r1 == defaultPath(route, cell.info) IN
       IF r1.p["path"].t # "string"
       THEN [outcome |-> "threw", wrote |-> TRUE, route |-> r1,
             parsed |-> "none", issues |-> <<>>]
       ELSE LET r2 == deriveFields(r1)
                parsed == safeParse(r2)
            IN [outcome |-> "returned", wrote |-> TRUE, route |-> r2,
                parsed |-> IF parsed.success THEN "valid" ELSE "invalid",
                issues |-> IF parsed.success THEN <<>>
                           ELSE <<routeIssue(cell, parsed.error)>>]

-----------------------------------------------------------------------------
(***************************************************************************)
(* Inputs                                                                  *)
(***************************************************************************)
sIndexSql == <<"i", "n", "d", "e", "x", ".", "s", "q", "l">>

sReport ==
  <<"/", "d", "o", "c", "s", "/", "r", "e", "p", "o", "r", "t", ".", "s", "q",
    "l", ".", "t", "s">>

sDotDot == <<"a", "/", ".", ".", "/", "x", ".", "a", ".", "b">>

sHome == <<"H", "o", "m", "e">>

\* every string over Chars of at most MaxPathLen characters, and three longer ones
PathInputs ==
  UNION {[1..k -> Chars] : k \in 0..MaxPathLen} \cup {sIndexSql, sReport, sDotDot}

NoCells == [c \in {} |-> 0]

NoDerived ==
  [called |-> FALSE,
   ext |-> [basename |-> <<>>, extensions |-> <<>>, terminal |-> <<>>],
   auto |-> [applicable |-> FALSE, path |-> <<>>]]

IdlePop == [pc |-> "idle", anns |-> <<>>, forest |-> <<>>, crumbs |-> <<>>]

NoLast == [cell |-> "none", heap |-> <<>>, nIssues |-> 0, vstat |-> <<>>]

(***************************************************************************)
(* SpecDerive: pathExtensions(p) and its autoMaterializable() on every p   *)
(***************************************************************************)
InitDerive ==
  /\ input \in PathInputs
  /\ derived = NoDerived
  /\ cells = NoCells
  /\ heap = NoCells
  /\ issues = <<>>
  /\ calls = NoCells
  /\ outcome = NoCells
  /\ vstat = NoCells
  /\ last = NoLast
  /\ init = [cells |-> cells, heap |-> heap]
  /\ pop = IdlePop

Derive ==
  /\ ~derived.called
  /\ derived' = [called |-> TRUE,
                 ext |-> pathExtensions(input),
                 auto |-> autoMaterializable(input)]
  /\ UNCHANGED <<input, cells, heap, issues, calls, outcome, vstat, last, init, pop>>

NextDerive == Derive

SpecDerive == InitDerive /\ [][NextDerive]_vars

(***************************************************************************)
(* enrichRoute as an action: the call is synchronous, so it is one step    *)
(***************************************************************************)
\* mutant: the route written is one object shared by every carrier
enrichRoute_shared(c) ==
  LET cell == cells[c]
      r == cell.attrs.ref
      res == enrichCall(cell, heap[r])
  IN /\ pop.pc = "idle"
     /\ calls[c] < MaxCalls
     /\ heap' = IF res.wrote THEN [x \in DOMAIN heap |-> res.route] ELSE heap
     /\ issues' = issues \o res.issues
     /\ calls' = [calls EXCEPT ![c] = @ + 1]
     /\ outcome' = [outcome EXCEPT ![c] = res.outcome]
     /\ vstat' = IF res.parsed = "none" THEN vstat
                 ELSE [vstat EXCEPT ![r] = res.parsed]
     /\ last' = [cell |-> c, heap |-> heap, nIssues |-> Len(issues), vstat |-> vstat]
     /\ UNCHANGED <<input, derived, cells, init, pop>>

enrichRoute(c) ==
  LET cell == cells[c]
      r == cell.attrs.ref
      res == enrichCall(cell, heap[r])
  IN /\ pop.pc = "idle"
     /\ calls[c] < MaxCalls
     /\ heap' = IF res.wrote THEN [heap EXCEPT ![r] = res.route] ELSE heap
     /\ issues' = issues \o res.issues
     /\ calls' = [calls EXCEPT ![c] = @ + 1]
     /\ outcome' = [outcome EXCEPT ![c] = res.outcome]
     /\ vstat' = IF res.parsed = "none" THEN vstat
                 ELSE [vstat EXCEPT ![r] = res.parsed]
     /\ last' = [cell |-> c, heap |-> heap, nIssues |-> Len(issues), vstat |-> vstat]
     /\ UNCHANGED <<input, derived, cells, init, pop>>

(***************************************************************************)
(* SpecEnrich: one carrier, every shape of attrs and route                 *)
(***************************************************************************)
EmptyRoute == [kind |-> "object", p |-> [k \in RouteKeys |-> Absent]]

EnrichPaths ==
  {Absent, StrV(<<>>), StrV(<<"a">>), StrV(<<"a", ".", "b">>), StrV(sIndexSql),
   StrV(sReport), NumV(<<"5">>), NumV(<<"0">>)}

Garbage == StrV(<<"z", ".", "z">>)

\* the derived fields as the caller supplied them: none, or values unrelated to path
SuppliedDerived ==
  {[k \in OptionalStrings \cup {"pathExtns"} |-> Absent],
   [k \in OptionalStrings \cup {"pathExtns"} |->
      IF k = "pathExtns" THEN ArrV(<<<<"z">>>>)
      ELSE IF k \in {"url", "title", "abbreviatedCaption", "description"} THEN Absent
      ELSE Garbage]}

EnrichRoutes ==
  {[kind |-> kind,
    p |-> [k \in RouteKeys |->
             CASE k = "path" -> path
               [] k = "caption" -> caption
               [] k = "foo" -> foo
               [] k \in DOMAIN sd -> sd[k]
               [] OTHER -> Absent]] :
     kind \in {"object", "array"}, path \in EnrichPaths,
     caption \in {Absent, StrV(sHome), NumV(<<"7">>)},
     foo \in {Absent, NumV(<<"1">>)}, sd \in SuppliedDerived}

\* attrs of a carrier: not an object, an object without route, route a string,
\* route null, route an object (or array) on the heap
AttrsShapes ==
  {[t |-> "undefined", hasRoute |-> FALSE, routeT |-> "undefined", ref |-> "r1"],
   [t |-> "object", hasRoute |-> FALSE, routeT |-> "undefined", ref |-> "r1"],
   [t |-> "object", hasRoute |-> TRUE, routeT |-> "string", ref |-> "r1"],
   [t |-> "object", hasRoute |-> TRUE, routeT |-> "null", ref |-> "r1"],
   [t |-> "object", hasRoute |-> TRUE, routeT |-> "object", ref |-> "r1"]}

InitEnrich ==
  /\ input = <<>>
  /\ derived = NoDerived
  /\ \E attrs \in AttrsShapes, info \in {<<>>, sIndexSql} :
       cells = [c \in {"c1"} |->
                  [attrs |-> attrs, info |-> info, provenance |-> "nb.md",
                   startLine |-> 3, endLine |-> 9]]
  /\ \E route \in EnrichRoutes :
       /\ cells["c1"].attrs.routeT # "object" => route = EmptyRoute
       /\ heap = [r \in {"r1"} |-> route]
  /\ issues = <<>>
  /\ calls = [c \in {"c1"} |-> 0]
  /\ outcome = [c \in {"c1"} |-> "pending"]
  /\ vstat = [r \in {"r1"} |-> "never"]
  /\ last = NoLast
  /\ init = [cells |-> cells, heap |-> heap]
  /\ pop = IdlePop

NextEnrich == \E c \in DOMAIN cells : enrichRoute(c)

SpecEnrich == InitEnrich /\ [][NextEnrich]_vars

-----------------------------------------------------------------------------
(***************************************************************************)
(* pathTree and pathTreeNavigation (../universal/path-tree.ts), with the   *)
(* options Routes.populate passes: pathDelim "/", synthesizeContainers,    *)
(* indexBasenames ["index.sql"].  A node is the sequence of its segments.  *)
(***************************************************************************)
indexBasenames == {sIndexSql}

RECURSIVE nonEmptySegments(_)
nonEmptySegments(segs) ==
  IF segs = <<>> THEN <<>>
  ELSE (IF Head(segs) = <<>> THEN <<>> ELSE <<Head(segs)>>)
         \o nonEmptySegments(Tail(segs))

\* the node a record with this path is attached to: an index record stands
\* for its containing directory
nodeKey(path) ==
  LET segs == nonEmptySegments(Split(path, "/"))
  IN IF segs # <<>> /\ segs[Len(segs)] \in indexBasenames
     THEN SubSeq(segs, 1, Len(segs) - 1)
     ELSE segs

pathOf(h, p) == h[p].p["path"].s

RECURSIVE payloadsAt(_, _, _)
payloadsAt(h, anns, node) ==
  IF anns = <<>> THEN <<>>
  ELSE (IF nodeKey(pathOf(h, Head(anns))) = node THEN <<Head(anns)>> ELSE <<>>)
         \o payloadsAt(h, Tail(anns), node)

\* forest.treeByPath: every record's node and, synthesized, each container above it
pathTree(h, anns) ==
  LET keys == {nodeKey(pathOf(h, anns[i])) : i \in 1..Len(anns)}
      nodes == keys \cup UNION {{SubSeq(k, 1, n) : n \in 1..Len(k)} : k \in keys}
  IN [n \in nodes |-> [payloads |-> payloadsAt(h, anns, n)]]

\* nav.ancestors(p): the nodes above p's node, root first
ancestors(h, p) ==
  LET key == nodeKey(pathOf(h, p)) IN [i \in 1..(Len(key) - 1) |-> SubSeq(key, 1, i)]

(***************************************************************************)
(* Routes.populate                                                         *)
(***************************************************************************)
\* mutant: the entry is keyed by the node's path, not by the payload's own path
crumbKey_node(h, p) == JoinWith(nodeKey(pathOf(h, p)), <<"/">>)

\* the key of crumbs[p.path]
crumbKey(h, p) == pathOf(h, p)

\* crumbs[key] = val on a plain object
setCrumb(crumbs, key, val) ==
  [k \in DOMAIN crumbs \cup {key} |-> IF k = key THEN val ELSE crumbs[k]]

RECURSIVE crumbsOfPayloads(_, _, _)
crumbsOfPayloads(h, payloads, crumbs) ==
  IF payloads = <<>> THEN crumbs
  ELSE crumbsOfPayloads(h, Tail(payloads),
         setCrumb(crumbs, crumbKey(h, Head(payloads)), ancestors(h, Head(payloads))))

\* for (const node of forest.treeByPath.values()) for (const p of node.payloads) ...
RECURSIVE composeCrumbs(_, _, _, _)
composeCrumbs(h, forest, order, crumbs) ==
  IF order = <<>> THEN crumbs
  ELSE composeCrumbs(h, forest, Tail(order),
         crumbsOfPayloads(h, forest[Head(order)].payloads, crumbs))

\* the orders in which treeByPath.values() may yield the nodes
NodeOrders(forest) ==
  LET n == Cardinality(DOMAIN forest)
  IN {o \in [1..n -> DOMAIN forest] : \A i, j \in 1..n : i # j => o[i] # o[j]}

\* the route objects the caller may hand to new Routes(...): those of the
\* route-supplying carriers, each at most once, in any order
SupplierRefs ==
  {cells[c].attrs.ref : c \in {x \in DOMAIN cells : cells[x].attrs.routeT = "object"}}

RouteAnns ==
  {a \in UNION {[1..n -> SupplierRefs] : n \in 1..Cardinality(SupplierRefs)} :
     \A i, j \in 1..Len(a) : i # j => a[i] # a[j]}

\* new Routes(anns).populate(), called once every carrier has been enriched.
\* pathTree reads n.path of every record; a path that is no string makes the
\* promise reject ("threw").
populate(anns) ==
  /\ pop.pc = "idle"
  /\ \A c \in DOMAIN cells : calls[c] >= 1
  /\ IF \E i \in 1..Len(anns) : heap[anns[i]].p["path"].t # "string"
     THEN pop' = [pc |-> "threw", anns |-> anns, forest |-> <<>>, crumbs |-> <<>>]
     ELSE LET forest == pathTree(heap, anns) IN
          \E order \in NodeOrders(forest) :
            pop' = [pc |-> "done", anns |-> anns, forest |-> forest,
                    crumbs |-> composeCrumbs(heap, forest, order, <<>>)]
  /\ UNCHANGED <<input, derived, cells, heap, issues, calls, outcome, vstat, last, init>>

(***************************************************************************)
(* Spec: two carriers enriched in any order, then Routes.populate          *)
(***************************************************************************)
CellIds == {"c1", "c2"}

RouteIds == {"r1", "r2"}

sD == <<"d">>

sDX == <<"d", "/", "x">>

sDY == <<"d", "/", "y", ".", "s", "q", "l">>

sDIndex == <<"d", "/">> \o sIndexSql

RouteOf(path, caption, foo) ==
  [kind |-> "object",
   p |-> [k \in RouteKeys |->
            CASE k = "path" -> path
              [] k = "caption" -> caption
              [] k = "foo" -> foo
              [] OTHER -> Absent]]

CellRoutes ==
  {RouteOf(StrV(sD), StrV(sHome), Absent),
   RouteOf(StrV(sDX), StrV(sHome), Absent),
   RouteOf(StrV(sDIndex), StrV(sHome), Absent),
   RouteOf(Absent, StrV(sHome), Absent),
   RouteOf(StrV(sDX), Absent, Absent),
   RouteOf(StrV(sD), StrV(sHome), NumV(<<"1">>))}

CellAttrs ==
  {[t |-> "object", hasRoute |-> FALSE, routeT |-> "undefined", ref |-> "r1"]}
    \cup {[t |-> "object", hasRoute |-> TRUE, routeT |-> "object", ref |-> r] :
            r \in RouteIds}

FirstLine == [c \in CellIds |-> IF c = "c1" THEN 3 ELSE 12]

Init ==
  /\ input = <<>>
  /\ derived = NoDerived
  /\ \E attrs \in [CellIds -> CellAttrs], info \in [CellIds -> {<<>>, sDY}] :
       cells = [c \in CellIds |->
                  [attrs |-> attrs[c], info |-> info[c], provenance |-> "nb.md",
                   startLine |-> FirstLine[c], endLine |-> FirstLine[c] + 6]]
  /\ heap \in [RouteIds -> CellRoutes]
  /\ issues = <<>>
  /\ calls = [c \in CellIds |-> 0]
  /\ outcome = [c \in CellIds |-> "pending"]
  /\ vstat = [r \in RouteIds |-> "never"]
  /\ last = NoLast
  /\ init = [cells |-> cells, heap |-> heap]
  /\ pop = IdlePop

Next ==
  \/ \E c \in DOMAIN cells : enrichRoute(c)
  \/ \E anns \in RouteAnns : populate(anns)

Spec == Init /\ [][Next]_vars

-----------------------------------------------------------------------------
(***************************************************************************)
(* Properties of pathExtensions (SpecDerive)                               *)
(***************************************************************************)
DotsOf(s) == {i \in 1..Len(s) : s[i] = "."}

HasNoDot(s) == DotsOf(s) = {}

\* the basename up to its first dot
StemOf(name) ==
  IF DotsOf(name) = {} THEN name
  ELSE SubSeq(name, 1, (CHOOSE i \in DotsOf(name) : \A j \in DotsOf(name) : i <= j) - 1)

\* the text between the last two dots of a basename that has two or more
IntermediateOf(name) ==
  LET lastDot == SetMax(DotsOf(name))
      prevDot == SetMax(DotsOf(name) \ {lastDot})
  IN SubSeq(name, prevDot + 1, lastDot - 1)

RECURSIVE Concat(_)
Concat(xs) == IF xs = <<>> THEN <<>> ELSE Head(xs) \o Concat(Tail(xs))

\* C7: autoMaterializable() is the sentinel false when the basename has fewer
\* than two extensions; otherwise its path lies in the directory of p, has the
\* stem of p, and is named <stem>.auto.<intermediate>.
C7_AutoMaterializable ==
  derived.called =>
    LET name == basename(input)
        auto == derived.auto
    IN IF Cardinality(DotsOf(name)) < 2 THEN ~auto.applicable
       ELSE /\ auto.applicable
            /\ normalize(dirname(auto.path)) = normalize(dirname(input))
            /\ StemOf(basename(auto.path)) = StemOf(name)
            /\ basename(auto.path) =
                 StemOf(name) \o <<".", "a", "u", "t", "o", ".">> \o IntermediateOf(name)

C7_Witness ==
  /\ derived.called
  /\ input = sReport
  /\ derived.auto.applicable
  /\ derived.auto.path =
       <<"/", "d", "o", "c", "s", "/", "r", "e", "p", "o", "r", "t", ".", "a",
         "u", "t", "o", ".", "s", "q", "l">>

-----------------------------------------------------------------------------
(***************************************************************************)
(* Properties of enrichRoute (SpecEnrich)                                  *)
(***************************************************************************)
Called == last.cell # "none"

LastCell == cells[last.cell]

LastRef == LastCell.attrs.ref

\* the issues the latest call handed to registerIssue
NewIssues == SubSeq(issues, last.nIssues + 1, Len(issues))

DerivedKeys ==
  {"pathBasename", "pathBasenameNoExtn", "pathDirname", "pathExtnTerminal", "pathExtns"}

\* C1: no enrichRoute call throws; every call returns normally.
C1_NeverThrows == \A c \in DOMAIN outcome : outcome[c] # "threw"

\* C2: a call that returns on a record failing the strict schema registers
\* exactly one issue, of kind "route-schema-parse" and disposition "error".
C2_SchemaIssueKind ==
  (/\ Called
   /\ isRouteSupplier(LastCell.attrs)
   /\ outcome[last.cell] = "returned"
   /\ ~safeParse(heap[LastRef]).success)
  => /\ Len(NewIssues) = 1
     /\ NewIssues[1].kind = "route-schema-parse"
     /\ NewIssues[1].disposition = "error"

\* C5: after enrichRoute on a route-supplying carrier the five derived fields
\* of its route are the values derived from the route's path.
C5_DerivedOverwritten ==
  (Called /\ isRouteSupplier(LastCell.attrs)) =>
    /\ LastCell.attrs.routeT = "object"
    /\ LET route == heap[LastRef]
           path == route.p["path"]
       IN /\ path.t = "string"
          /\ route.p["pathBasename"] = StrV(basename(path.s))
          /\ route.p["pathBasenameNoExtn"] = StrV(StemOf(basename(path.s)))
          /\ route.p["pathDirname"] = StrV(dirname(path.s))
          /\ route.p["pathExtnTerminal"] = StrV(pathExtensions(path.s).terminal)
          /\ route.p["pathExtns"] = ArrV(pathExtensions(path.s).extensions)

\* C6: every call on a route-supplying carrier returns normally, registering
\* exactly one issue (disposition "error", the carrier's provenance and lines)
\* when the record fails validation and none when it is valid.
C6_OneIssuePerFailure ==
  (Called /\ isRouteSupplier(LastCell.attrs)) =>
    /\ outcome[last.cell] = "returned"
    /\ IF LastCell.attrs.routeT = "object" /\ safeParse(heap[LastRef]).success
       THEN NewIssues = <<>>
       ELSE /\ Len(NewIssues) = 1
            /\ NewIssues[1].disposition = "error"
            /\ NewIssues[1].provenance = LastCell.provenance
            /\ NewIssues[1].startLine = LastCell.startLine
            /\ NewIssues[1].endLine = LastCell.endLine

\* C9: a call on a carrier whose route the call before found valid leaves path
\* and the five derived fields as they were and registers no issue.
C9_Idempotent ==
  (/\ Called
   /\ isRouteSupplier(LastCell.attrs)
   /\ calls[last.cell] >= 2
   /\ last.vstat[LastRef] = "valid")
  => /\ outcome[last.cell] = "returned"
     /\ \A k \in DerivedKeys \cup {"path"} :
          heap[LastRef].p[k] = last.heap[LastRef].p[k]
     /\ Len(issues) = last.nIssues

C9_Witness ==
  /\ Called
  /\ calls[last.cell] = 2
  /\ last.vstat[LastRef] = "valid"
  /\ heap[LastRef].p["path"] = StrV(sReport)
  /\ Len(heap[LastRef].p["pathExtns"].a) = 2
  /\ issues = <<>>

-----------------------------------------------------------------------------
(***************************************************************************)
(* Properties of enrichment followed by Routes.populate (Spec)             *)
(***************************************************************************)
\* C3: every record the forest is built from has been through enrichRoute and
\* passed schema validation.
C3_OnlyValidatedReachForest ==
  pop.pc = "done" => \A i \in 1..Len(pop.anns) : vstat[pop.anns[i]] = "valid"

\* the payloads on the nodes of the forest
ForestPayloads ==
  UNION {{pop.forest[n].payloads[i] : i \in 1..Len(pop.forest[n].payloads)} :
           n \in DOMAIN pop.forest}

\* C4: after populate every payload on a node of the forest has its entry in
\* crumbs, under its own path, holding its own ancestor chain, and crumbs has
\* no other entry.
C4_CrumbPerPayload ==
  pop.pc = "done" =>
    /\ \A p \in ForestPayloads :
         /\ pathOf(heap, p) \in DOMAIN pop.crumbs
         /\ pop.crumbs[pathOf(heap, p)] = ancestors(heap, p)
    /\ DOMAIN pop.crumbs = {pathOf(heap, p) : p \in ForestPayloads}
    /\ ForestPayloads = {pop.anns[i] : i \in 1..Len(pop.anns)}

\* two payloads on one node, one of them an index record, and a payload below
C4_Witness ==
  /\ pop.pc = "done"
  /\ \E n \in DOMAIN pop.forest : Len(pop.forest[n].payloads) = 2
  /\ \E p \in ForestPayloads :
       pathOf(heap, p) = sDIndex /\ pop.crumbs[sDIndex] = <<>>

\* two payloads with one path, and a payload with a non-empty ancestor chain
C4_WitnessSamePath ==
  /\ pop.pc = "done"
  /\ \E p, q \in ForestPayloads : p # q /\ pathOf(heap, p) = pathOf(heap, q)
  /\ sDX \in DOMAIN pop.crumbs
  /\ pop.crumbs[sDX] = <<sD>>

\* k calls of enrichRoute on one carrier, one after another
RECURSIVE EnrichN(_, _, _)
EnrichN(cell, route, k) ==
  IF k = 0 THEN [route |-> route, issues |-> <<>>]
  ELSE LET before == EnrichN(cell, route, k - 1)
           res == enrichCall(cell, before.route)
       IN [route |-> res.route, issues |-> before.issues \o res.issues]

\* the issues that carry carrier c's line span
IssuesOf(c) ==
  LET isOfCell(i) == i.startLine = cells[c].startLine /\ i.endLine = cells[c].endLine
  IN SelectSeq(issues, isOfCell)

ObjectCells == {c \in DOMAIN cells : cells[c].attrs.routeT = "object"}

DistinctRouteObjects ==
  \A c, d \in ObjectCells : c # d => cells[c].attrs.ref # cells[d].attrs.ref

\* C10: with distinct route objects, whatever the order of the calls, every
\* route and every carrier's issues are what that carrier's calls alone, one
\* after another, produce; a carrier without the route capability is not
\* mutated and causes no issue.
C10_DisjointCells ==
  /\ cells = init.cells
  /\ DistinctRouteObjects =>
       /\ \A c \in ObjectCells :
            LET alone == EnrichN(cells[c], init.heap[cells[c].attrs.ref], calls[c])
            IN /\ heap[cells[c].attrs.ref] = alone.route
               /\ IssuesOf(c) = alone.issues
       /\ \A r \in DOMAIN heap :
            r \notin SupplierRefs => heap[r] = init.heap[r]
  /\ \A c \in DOMAIN cells :
       ~isRouteSupplier(cells[c].attrs) => IssuesOf(c) = <<>>

\* both carriers supply distinct routes, both were enriched, one with an issue
C10_Witness ==
  /\ DistinctRouteObjects
  /\ Cardinality(ObjectCells) = 2
  /\ \A c \in DOMAIN cells : calls[c] >= 1
  /\ Len(issues) = 1
  /\ \E c \in DOMAIN cells :
       /\ init.heap[cells[c].attrs.ref].p["path"] = Absent
       /\ heap[cells[c].attrs.ref].p["path"] = StrV(sDY)

\* a carrier without the route capability was called and nothing changed
C10_WitnessNoRoute ==
  /\ \E c \in DOMAIN cells : ~isRouteSupplier(cells[c].attrs) /\ calls[c] >= 1
  /\ \A c \in DOMAIN cells : calls[c] >= 1
  /\ heap = init.heap

====
